---------------------------- MODULE Spec2Model ----------------------------
(***************************************************************************)
(* Model of app/app.py: the US relocation recommendation dashboard.       *)
(*                                                                         *)
(* The module-level DataFrame df is one table shared by every session.    *)
(* Each session owns six inputs (five sliders, one text box), one cached  *)
(* reactive calculation compute_scores and three outputs (us_map,         *)
(* line_chart, info_box).  The render functions are plain synchronous     *)
(* Python functions, so each one is one atomic step; which invalidated    *)
(* output of which session runs next is left open.                        *)
(*                                                                         *)
(* Arithmetic.  Slider weights are multiples of 0.1 and are kept in       *)
(* tenths; base scores are therefore exact integers in tenths.  Angles,   *)
(* distances ratios and multipliers are kept in fixed point with Scale    *)
(* units per 1.0; a final score is kept in units of 1/(10*Scale).  The    *)
(* model computes in exact fixed point, not in IEEE doubles.              *)
(***************************************************************************)
EXTENDS Integers, Sequences, FiniteSets, TLC

(***************************************************************************)
(* Fixed-point helpers (math module).  Every operator binds its arguments *)
(* to values before using them (v \in {e}), so that an argument is        *)
(* evaluated once however often the body mentions it.                     *)
(***************************************************************************)
Scale == 1000000
Half == 1000

Only(S) == CHOOSE x \in S : TRUE

Abs(x) == IF x < 0 THEN -x ELSE x

\* (a * b) / Scale on non-negative values without leaving 32 bits.
MulNat(a, b) ==
    (a \div Half) * (b \div Half)
    + ((a \div Half) * (b % Half) + (a % Half) * (b \div Half)) \div Half
    + ((a % Half) * (b % Half)) \div Scale

MulVal(a, b) ==
    IF (a < 0) = (b < 0) THEN MulNat(Abs(a), Abs(b))
                         ELSE -MulNat(Abs(a), Abs(b))

\* The product of two fixed-point numbers.
MulFix(a, b) == Only({MulVal(x, y) : x \in {a}, y \in {b}})

\* math.radians: degrees (in 1e-6 degree) to radians (in 1e-6 radian).
PiOver180 == 17453
radians(deg) == MulFix(deg, PiOver180)

\* x^3, x^5, x^7 and x^9 of a fixed-point value, each from the one before.
OddPowers(x) ==
    Only({ Only({ Only({ Only({ Only({ <<x, x3, x5, x7, x9>>
        : x9 \in {MulVal(x7, x2)} })
        : x7 \in {MulVal(x5, x2)} })
        : x5 \in {MulVal(x3, x2)} })
        : x3 \in {MulVal(x2, x)} })
        : x2 \in {MulVal(x, x)} })

\* x^2, x^4, x^6 and x^8 of a fixed-point value.
EvenPowers(x) ==
    Only({ Only({ Only({ Only({ <<x2, x4, x6, x8>>
        : x8 \in {MulVal(x4, x4)} })
        : x6 \in {MulVal(x4, x2)} })
        : x4 \in {MulVal(x2, x2)} })
        : x2 \in {MulVal(x, x)} })

\* math.sin, by its Taylor series (arguments here are below 1 radian).
sin(x) ==
    Only({p[1] - p[2] \div 6 + p[3] \div 120 - p[4] \div 5040
          : p \in {OddPowers(v) : v \in {x}}})

\* math.cos, by its Taylor series (arguments here are below 1 radian).
cos(x) ==
    Only({Scale - p[1] \div 2 + p[2] \div 24 - p[3] \div 720 + p[4] \div 40320
          : p \in {EvenPowers(v) : v \in {x}}})

\* math.sqrt on [0, 1]: the largest r with r*r <= a, found by bisection.
RECURSIVE SqrtSearch(_, _, _)
SqrtSearch(a, lo, hi) ==
    IF hi - lo <= 1 THEN lo
    ELSE Only({ IF MulVal(mid, mid) <= a THEN SqrtSearch(a, mid, hi)
                                         ELSE SqrtSearch(a, lo, mid)
                : mid \in {(lo + hi) \div 2} })

sqrt(a) == Only({SqrtSearch(v, 0, Scale + 1) : v \in {a}})

\* math.asin, by its Taylor series (arguments here are below 0.5).
asin(x) ==
    Only({p[1] + p[2] \div 6 + (3 * p[3]) \div 40 + (15 * p[4]) \div 336
               + (105 * p[5]) \div 3456
          : p \in {OddPowers(v) : v \in {x}}})

\* e^u for a small u of either sign (|u| below 1), by its Taylor series.
ExpSmall(u) ==
    Only({ Only({ Scale + v + p[1] \div 2 + MulVal(p[1], v) \div 6 + p[2] \div 24
                  + MulVal(p[2], v) \div 120 + p[3] \div 720
                  : p \in {EvenPowers(v)} })
           : v \in {u} })

\* math.exp: e^t = (e^(t/16))^16.
exp(t) ==
    Only({ Only({ Only({ Only({ MulVal(e8, e8)
        : e8 \in {MulVal(e4, e4)} })
        : e4 \in {MulVal(e2, e2)} })
        : e2 \in {MulVal(e1, e1)} })
        : e1 \in {ExpSmall(t \div 16)} })

(***************************************************************************)
(* Helper function: haversine.                                            *)
(***************************************************************************)
EarthRadiusKm == 6371

\* Kilometres are kept in metres (KmScale units per km).
KmScale == 1000

\* 6371 * c, with c in 1e-6 radian and the product in metres.
TimesRadius(c) ==
    EarthRadiusKm * (c \div KmScale) + (EarthRadiusKm * (c % KmScale)) \div KmScale

\* a = sin(dlat/2)**2 + cos(lat1) * cos(lat2) * sin(dlon/2)**2, in radians.
HaversineA(rlat1, rlon1, rlat2, rlon2) ==
    Only({ MulVal(sdlat, sdlat)
           + MulVal(MulFix(cos(rlat1), cos(rlat2)), MulVal(sdlon, sdlon))
           : sdlat \in {sin((rlat2 - rlat1) \div 2)},
             sdlon \in {sin((rlon2 - rlon1) \div 2)} })

\* Great-circle distance in metres between two points given in 1e-6 degree.
haversine(lat1, lon1, lat2, lon2) ==
    Only({ TimesRadius(c)
           : c \in { 2 * asin(sqrt(a))
                     : a \in { HaversineA(radians(lat1), radians(lon1),
                                          radians(lat2), radians(lon2)) } } })

(***************************************************************************)
(* Sample data for 10 states; lat and lon in 1e-6 degree.                 *)
(***************************************************************************)
data ==
  << [state |-> "California", state_code |-> "CA", income |-> 8, cost_of_living |-> 7,
      crime_rate |-> 4, job_opportunities |-> 9, climate |-> 8,
      lat |-> 36778300, lon |-> -119417900],
     [state |-> "Texas", state_code |-> "TX", income |-> 7, cost_of_living |-> 5,
      crime_rate |-> 6, job_opportunities |-> 8, climate |-> 7,
      lat |-> 31968600, lon |-> -99901800],
     [state |-> "New York", state_code |-> "NY", income |-> 9, cost_of_living |-> 6,
      crime_rate |-> 5, job_opportunities |-> 9, climate |-> 6,
      lat |-> 42165700, lon |-> -74948100],
     [state |-> "Florida", state_code |-> "FL", income |-> 6, cost_of_living |-> 6,
      crime_rate |-> 7, job_opportunities |-> 7, climate |-> 9,
      lat |-> 27994400, lon |-> -81760300],
     [state |-> "Illinois", state_code |-> "IL", income |-> 7, cost_of_living |-> 5,
      crime_rate |-> 6, job_opportunities |-> 7, climate |-> 6,
      lat |-> 40000000, lon |-> -89000000],
     [state |-> "Pennsylvania", state_code |-> "PA", income |-> 7, cost_of_living |-> 6,
      crime_rate |-> 5, job_opportunities |-> 7, climate |-> 5,
      lat |-> 41203300, lon |-> -77194500],
     [state |-> "Ohio", state_code |-> "OH", income |-> 6, cost_of_living |-> 5,
      crime_rate |-> 6, job_opportunities |-> 7, climate |-> 5,
      lat |-> 40367500, lon |-> -82996200],
     [state |-> "Georgia", state_code |-> "GA", income |-> 7, cost_of_living |-> 6,
      crime_rate |-> 5, job_opportunities |-> 7, climate |-> 8,
      lat |-> 32165600, lon |-> -82900100],
     [state |-> "North Carolina", state_code |-> "NC", income |-> 7, cost_of_living |-> 6,
      crime_rate |-> 5, job_opportunities |-> 7, climate |-> 7,
      lat |-> 35759600, lon |-> -79019300],
     [state |-> "Michigan", state_code |-> "MI", income |-> 6, cost_of_living |-> 5,
      crime_rate |-> 7, job_opportunities |-> 6, climate |-> 4,
      lat |-> 44314800, lon |-> -85602400] >>

\* The columns of a freshly constructed table.
DataColumns ==
    {"state", "state_code", "income", "cost_of_living", "crime_rate",
     "job_opportunities", "climate", "lat", "lon"}

(***************************************************************************)
(* Strings are sequences of one-character strings, so that strip() and    *)
(* dictionary lookup work on what the user typed.                         *)
(***************************************************************************)
Whitespace == {" ", "\t", "\n"}

RECURSIVE lstrip(_)
lstrip(s) ==
    IF s # << >> /\ Head(s) \in Whitespace THEN lstrip(Tail(s)) ELSE s

RECURSIVE rstrip(_)
rstrip(s) ==
    IF s # << >> /\ s[Len(s)] \in Whitespace
    THEN rstrip(SubSeq(s, 1, Len(s) - 1)) ELSE s

\* str.strip()
strip(s) == rstrip(lstrip(s))

(***************************************************************************)
(* Dummy zip code lookup; lat and lon in 1e-6 degree.                     *)
(***************************************************************************)
Zip10001 == <<"1", "0", "0", "0", "1">>
Zip90001 == <<"9", "0", "0", "0", "1">>
Zip60601 == <<"6", "0", "6", "0", "1">>

ZipKeys == {Zip10001, Zip90001, Zip60601}

zip_lookup ==
    [k \in ZipKeys |->
        CASE k = Zip10001 -> [lat |-> 40750742, lon |-> -73996530]
          [] k = Zip90001 -> [lat |-> 33973951, lon |-> -118248405]
          [] k = Zip60601 -> [lat |-> 41885310, lon |-> -87621660]]


\* pd.DataFrame(data): one row per record, each row a map from column to value.
DataFrame(records) ==
    [i \in 1..Len(records) |-> [c \in DataColumns |-> records[i][c]]]

\* df[col] = values: adds the column or overwrites it, in place, row by row.
SetColumn(table, col, values) ==
    Only({ [i \in 1..Len(t) |->
              [c \in (DOMAIN t[i]) \cup {col} |-> IF c = col THEN v[i] ELSE t[i][c]]]
           : t \in {table}, v \in {values} })

(***************************************************************************)
(* The UI: one text input and five sliders from 0 to 1 in steps of 0.1,   *)
(* starting at 0.2.  Slider values are kept in tenths.                    *)
(***************************************************************************)
SliderMin == 0
SliderMax == 10
SliderDefault == 2

WeightInputs ==
    {"weight_income", "weight_cost", "weight_crime", "weight_job", "weight_climate"}

Outputs == {"us_map", "line_chart", "info_box"}

\* What a session's inputs hold when the session starts.
InitialInput ==
    [zip_code       |-> << >>,
     weight_income  |-> SliderDefault,
     weight_cost    |-> SliderDefault,
     weight_crime   |-> SliderDefault,
     weight_job     |-> SliderDefault,
     weight_climate |-> SliderDefault]

NA == <<"N", "/", "A">>

(***************************************************************************)
(* Bounds of the model.                                                   *)
(***************************************************************************)
\* Sessions of the multi-session specification.
NumSessions == 2
\* Input changes a session may make before its invalidated outputs re-run.
MaxPending == 1

\* Slider positions tried: both ends and the default.
SliderChoices == {SliderMin, SliderDefault, SliderMax}

\* Texts typed into the zip code box.
ZipEmpty      == << >>
ZipPlain      == Zip10001
ZipPadded     == <<" ">> \o Zip90001 \o <<" ">>
ZipNewline    == Zip60601 \o <<"\n">>
ZipUnknown    == <<"9", "9", "9", "9", "9">>
ZipInnerSpace == <<"1", "0", " ", "0", "0", "1">>
ZipBlank      == <<" ", "\t">>

ZipChoices ==
    {ZipEmpty, ZipPlain, ZipPadded, ZipNewline, ZipUnknown, ZipInnerSpace, ZipBlank}

\* Spec moves every slider and types these texts.
ScoreZips == {ZipEmpty, ZipPadded, ZipUnknown}
\* SpecZip types every text and moves these sliders.
ZipSliders == {"weight_income"}
\* SpecMulti: what each of its sessions moves and types.
MultiSliders == {"weight_income"}
MultiZips == {ZipEmpty, ZipPlain}

VARIABLES
    input,        \* input[s]: the current value of each input of session s
    df,           \* the module-level table shared by all sessions
    calc,         \* calc[s]: is the cached compute_scores of session s valid
    branch,       \* branch[s]: the branch the last compute_scores of s took
    invalidated,  \* invalidated[s]: outputs of s waiting to be re-executed
    out,          \* out[s][o]: what output o of session s last rendered
    pending       \* pending[s]: input changes of s since its outputs were all fresh

vars == <<input, df, calc, branch, invalidated, out, pending>>

Sessions == DOMAIN input

(***************************************************************************)
(* server.compute_scores                                                   *)
(***************************************************************************)
\* Variant of BaseScore: the weights normalised to sum to one.
BaseScoreNormalised(row, in) ==
    Only({ IF total = 0 THEN 0
           ELSE ((in.weight_income * row["income"] +
                  in.weight_cost * row["cost_of_living"] +
                  in.weight_crime * row["crime_rate"] +
                  in.weight_job * row["job_opportunities"] +
                  in.weight_climate * row["climate"]) * SliderMax) \div total
           : total \in {in.weight_income + in.weight_cost + in.weight_crime
                         + in.weight_job + in.weight_climate} })

\* The weighted sum of one row, in tenths.
BaseScore(row, in) ==
    in.weight_income * row["income"] +
    in.weight_cost * row["cost_of_living"] +
    in.weight_crime * row["crime_rate"] +
    in.weight_job * row["job_opportunities"] +
    in.weight_climate * row["climate"]

BaseScores(table, in) == [i \in 1..Len(table) |-> BaseScore(table[i], in)]

\* Variant of LookupKey: the text as typed, not stripped.
LookupKeyRaw(in) == in.zip_code

\* The text looked up in zip_lookup.
LookupKey(in) == strip(in.zip_code)

\* -distance / 500, with distance in metres, as a fixed-point number.
DecayKm == 500
DecayExponent(distance) ==
    -((distance \div DecayKm) * (Scale \div KmScale)
      + ((distance % DecayKm) * (Scale \div KmScale)) \div DecayKm)

\* math.exp(-haversine(...) / 500) for one pair of points.
ProximityOf(zip_lat, zip_lon, lat, lon) ==
    exp(DecayExponent(haversine(zip_lat, zip_lon, lat, lon)))

\* ProximityOf tabulated once for the zip codes and rows of the source, so
\* that the model checker does not redo the trigonometry in every state.
ProximityMemo ==
    [k \in ZipKeys |->
        [i \in 1..Len(data) |->
            ProximityOf(zip_lookup[k].lat, zip_lookup[k].lon, data[i].lat, data[i].lon)]]

\* Variant of Multiplier: linear decay clipped at zero, max(0, 1 - distance/500).
MultiplierLinear(zip_lat, zip_lon, row) ==
    Only({ IF Scale + e < 0 THEN 0 ELSE Scale + e
           : e \in {DecayExponent(haversine(zip_lat, zip_lon, row["lat"], row["lon"]))} })

\* One pass of the loop body: the multiplier of one row.
Multiplier(zip_lat, zip_lon, row) ==
    Only({ IF known # {}
           THEN Only({ProximityMemo[p[1]][p[2]] : p \in {Only(known)}})
           ELSE ProximityOf(zip_lat, zip_lon, row["lat"], row["lon"])
           : known \in { {<<k, i>> \in ZipKeys \X (1..Len(data)) :
                            /\ zip_lookup[k].lat = zip_lat
                            /\ zip_lookup[k].lon = zip_lon
                            /\ data[i].lat = row["lat"]
                            /\ data[i].lon = row["lon"]} } })

\* The loop over df.iterrows(), appending one multiplier per row.
RECURSIVE Multipliers(_, _, _, _)
Multipliers(zip_lat, zip_lon, table, done) ==
    IF Len(done) = Len(table) THEN done
    ELSE Only({ Multipliers(zip_lat, zip_lon, table, next)
                : next \in {Append(done,
                               Multiplier(zip_lat, zip_lon, table[Len(done) + 1]))} })

\* Variant of AdjustedScore: base_score * proximity_multiplier, the 1 + left out.
AdjustedScoreScaled(base, multiplier) == base * multiplier

\* base_score * (1 + proximity_multiplier), in units of 1/(10*Scale).
AdjustedScore(base, multiplier) == base * (Scale + multiplier)

\* final_score = base_score, in units of 1/(10*Scale).
PlainScore(base) == base * Scale

\* Does the lookup find the key.
ZipFound(key) == key \in DOMAIN zip_lookup

\* Variant of AdjustScores: an unknown zip code falls back to the first entry
\* of the lookup instead of skipping the adjustment.
AdjustScoresFallback(t1, zip_code) ==
    Only({ Only({ SetColumn(t2, "final_score",
                      [i \in 1..Len(t2) |->
                          AdjustedScore(t2[i]["base_score"],
                                        t2[i]["proximity_multiplier"])])
                  : t2 \in { SetColumn(t1, "proximity_multiplier",
                                 Multipliers(zip_lookup[key].lat,
                                             zip_lookup[key].lon, t1, << >>)) } })
           : key \in {IF ZipFound(zip_code) THEN zip_code ELSE Zip10001} })

\* Variant of AdjustScores: the final score is adjusted by whatever
\* proximity_multiplier column the table holds, also one left by an earlier run.
AdjustScoresStale(t1, zip_code) ==
    Only({ IF \A i \in 1..Len(t2) : "proximity_multiplier" \in DOMAIN t2[i]
           THEN SetColumn(t2, "final_score",
                    [i \in 1..Len(t2) |->
                        AdjustedScore(t2[i]["base_score"],
                                      t2[i]["proximity_multiplier"])])
           ELSE SetColumn(t2, "final_score",
                    [i \in 1..Len(t2) |-> PlainScore(t2[i]["base_score"])])
           : t2 \in { IF ZipFound(zip_code)
                      THEN SetColumn(t1, "proximity_multiplier",
                               Multipliers(zip_lookup[zip_code].lat,
                                           zip_lookup[zip_code].lon, t1, << >>))
                      ELSE t1 } })

\* Lines 113-124: the if statement, on the table that has its base scores.
AdjustScores(t1, zip_code) ==
    IF ZipFound(zip_code)
    THEN Only({ SetColumn(t2, "final_score",
                    [i \in 1..Len(t2) |->
                        AdjustedScore(t2[i]["base_score"],
                                      t2[i]["proximity_multiplier"])])
                : t2 \in { SetColumn(t1, "proximity_multiplier",
                               Multipliers(zip_lookup[zip_code].lat,
                                           zip_lookup[zip_code].lon, t1, << >>)) } })
    ELSE SetColumn(t1, "final_score",
                   [i \in 1..Len(t1) |-> PlainScore(t1[i]["base_score"])])

\* Variant of ComputeScores: the income column is scaled in place by its weight.
ComputeScoresScaling(table, in) ==
    Only({ AdjustScores(t1, zip_code)
           : t1 \in { SetColumn(t0, "base_score", BaseScores(t0, in))
                      : t0 \in { SetColumn(table, "income",
                                    [i \in 1..Len(table) |->
                                        in.weight_income * table[i]["income"]]) } },
             zip_code \in {LookupKey(in)} })

\* Variant of ComputeScores: rows whose final score is zero are dropped.
ComputeScoresFiltered(table, in) ==
    Only({ SelectSeq(t3, LAMBDA row : row["final_score"] > 0)
           : t3 \in { AdjustScores(t1, zip_code)
                      : t1 \in {SetColumn(table, "base_score", BaseScores(table, in))},
                        zip_code \in {LookupKey(in)} } })

\* The body of compute_scores: the table it leaves behind.
ComputeScores(table, in) ==
    Only({ AdjustScores(t1, zip_code)
           : t1 \in {SetColumn(table, "base_score", BaseScores(table, in))},
             zip_code \in {LookupKey(in)} })

(***************************************************************************)
(* The reactive graph.  compute_scores reads all six inputs; us_map reads *)
(* compute_scores; line_chart and info_box read zip_code only.            *)
(***************************************************************************)
Init ==
    /\ input = [s \in {1} |-> InitialInput]
    /\ df = DataFrame(data)
    /\ calc = [s \in {1} |-> "invalid"]
    /\ branch = [s \in {1} |-> "none"]
    /\ invalidated = [s \in {1} |-> Outputs]
    /\ out = [s \in {1} |-> [o \in Outputs |-> << >>]]
    /\ pending = [s \in {1} |-> 0]

InitMulti ==
    /\ input = [s \in 1..NumSessions |-> InitialInput]
    /\ df = DataFrame(data)
    /\ calc = [s \in 1..NumSessions |-> "invalid"]
    /\ branch = [s \in 1..NumSessions |-> "none"]
    /\ invalidated = [s \in 1..NumSessions |-> Outputs]
    /\ out = [s \in 1..NumSessions |-> [o \in Outputs |-> << >>]]
    /\ pending = [s \in 1..NumSessions |-> 0]

\* Outputs that read the given input, directly or through compute_scores.
Dependents(name) ==
    IF name = "zip_code" THEN Outputs ELSE {"us_map"}

\* Variant of SetInput: the cached compute_scores is not invalidated.
SetInputKeepCalc(s, name, value) ==
    /\ pending[s] < MaxPending
    /\ input[s][name] # value
    /\ input' = [input EXCEPT ![s][name] = value]
    /\ invalidated' = [invalidated EXCEPT ![s] = @ \cup Dependents(name)]
    /\ pending' = [pending EXCEPT ![s] = @ + 1]
    /\ UNCHANGED <<df, calc, branch, out>>

\* The user of session s moves a slider or edits the zip code box.
SetInput(s, name, value) ==
    /\ pending[s] < MaxPending
    /\ input[s][name] # value
    /\ input' = [input EXCEPT ![s][name] = value]
    /\ calc' = [calc EXCEPT ![s] = "invalid"]
    /\ invalidated' = [invalidated EXCEPT ![s] = @ \cup Dependents(name)]
    /\ pending' = [pending EXCEPT ![s] = @ + 1]
    /\ UNCHANGED <<df, branch, out>>

SetWeight(s, name, value) == SetInput(s, name, value)

SetZipCode(s, value) == SetInput(s, "zip_code", value)

\* pending[s] after output o of session s has re-run.
Settled(s, o) ==
    [pending EXCEPT ![s] = IF invalidated[s] \ {o} = {} THEN 0 ELSE @]

\* What the choropleth reads from the table: locations and colour.
Choropleth(scored_df) ==
    [i \in 1..Len(scored_df) |->
        [state_code  |-> scored_df[i]["state_code"],
         final_score |-> scored_df[i]["final_score"]]]

\* server.us_map: calls compute_scores (re-run if invalid) and draws the table.
us_map(s) ==
    /\ "us_map" \in invalidated[s]
    /\ \E scored_df \in {IF calc[s] = "invalid" THEN ComputeScores(df, input[s]) ELSE df} :
           /\ df' = scored_df
           /\ out' = [out EXCEPT ![s]["us_map"] = Choropleth(scored_df)]
    /\ branch' = [branch EXCEPT ![s] =
                     IF calc[s] = "invalid"
                     THEN (IF ZipFound(LookupKey(input[s])) THEN "proximity" ELSE "base")
                     ELSE @]
    /\ calc' = [calc EXCEPT ![s] = "valid"]
    /\ invalidated' = [invalidated EXCEPT ![s] = @ \ {"us_map"}]
    /\ pending' = Settled(s, "us_map")
    /\ UNCHANGED input

\* selected_zip of line_chart and info_box.
SelectedZip(in) ==
    IF strip(in.zip_code) \in DOMAIN zip_lookup THEN strip(in.zip_code) ELSE NA

\* server.line_chart: the zip code shown in the chart title.
line_chart(s) ==
    /\ "line_chart" \in invalidated[s]
    /\ out' = [out EXCEPT ![s]["line_chart"] = SelectedZip(input[s])]
    /\ invalidated' = [invalidated EXCEPT ![s] = @ \ {"line_chart"}]
    /\ pending' = Settled(s, "line_chart")
    /\ UNCHANGED <<input, df, calc, branch>>

\* server.info_box: the zip code shown in the panel heading.
info_box(s) ==
    /\ "info_box" \in invalidated[s]
    /\ out' = [out EXCEPT ![s]["info_box"] = SelectedZip(input[s])]
    /\ invalidated' = [invalidated EXCEPT ![s] = @ \ {"info_box"}]
    /\ pending' = Settled(s, "info_box")
    /\ UNCHANGED <<input, df, calc, branch>>

\* One session, all sliders.
Next ==
    \/ \E s \in Sessions, name \in WeightInputs, v \in SliderChoices : SetWeight(s, name, v)
    \/ \E s \in Sessions, z \in ScoreZips : SetZipCode(s, z)
    \/ \E s \in Sessions : us_map(s)
    \/ \E s \in Sessions : line_chart(s)
    \/ \E s \in Sessions : info_box(s)

Spec == Init /\ [][Next]_vars

\* One session, all zip code texts.
NextZip ==
    \/ \E s \in Sessions, name \in ZipSliders, v \in SliderChoices : SetWeight(s, name, v)
    \/ \E s \in Sessions, z \in ZipChoices : SetZipCode(s, z)
    \/ \E s \in Sessions : us_map(s)
    \/ \E s \in Sessions : line_chart(s)
    \/ \E s \in Sessions : info_box(s)

SpecZip == Init /\ [][NextZip]_vars

\* Several sessions over the one table.
NextMulti ==
    \/ \E s \in Sessions, name \in MultiSliders, v \in SliderChoices : SetWeight(s, name, v)
    \/ \E s \in Sessions, z \in MultiZips : SetZipCode(s, z)
    \/ \E s \in Sessions : us_map(s)
    \/ \E s \in Sessions : line_chart(s)
    \/ \E s \in Sessions : info_box(s)

SpecMulti == InitMulti /\ [][NextMulti]_vars

(***************************************************************************)
(* Properties.                                                            *)
(***************************************************************************)
Rows == 1..Len(df)

HasColumn(col) == \A i \in Rows : col \in DOMAIN df[i]

\* Session s has run compute_scores on its current inputs.  With one session
\* the table then holds that run's result.
Computed(s) == calc[s] = "valid"

\* The trimmed zip code of session s is a key of the lookup.
Resolved(s) == strip(input[s].zip_code) \in ZipKeys

AllWeights(s, v) == \A name \in WeightInputs : input[s][name] = v

\* C1: once a session has computed its scores, the base score of every region
\* is w_income*income + w_cost*cost_of_living + w_crime*crime_rate +
\* w_job*job_opportunities + w_climate*climate for the session's weights, with
\* no normalisation; with all weights 0.2 California scores 7.2 (72 tenths).
C1_BaseScoreIsWeightedSum ==
    \A s \in Sessions :
        Computed(s) =>
            /\ \A i \in Rows :
                  df[i]["base_score"] =
                      input[s].weight_income * data[i].income
                      + input[s].weight_cost * data[i].cost_of_living
                      + input[s].weight_crime * data[i].crime_rate
                      + input[s].weight_job * data[i].job_opportunities
                      + input[s].weight_climate * data[i].climate
            /\ AllWeights(s, SliderDefault) => df[1]["base_score"] = 72

\* A computation with weights that do not sum to one: all five at 1.0.
C1_Witness ==
    \E s \in Sessions :
        /\ Computed(s)
        /\ AllWeights(s, SliderMax)
        /\ df[1]["state"] = "California"
        /\ df[1]["base_score"] = 360

\* C2: when the trimmed zip code is empty or not a key of the lookup, the
\* computation goes through and every final score equals the base score.
C2_NoLocationFinalIsBase ==
    \A s \in Sessions :
        (Computed(s) /\ ~Resolved(s)) =>
            /\ HasColumn("final_score")
            /\ \A i \in Rows : df[i]["final_score"] = df[i]["base_score"] * Scale

\* The unknown zip code 99999 computed after a zip code that resolved.
C2_Witness ==
    \E s \in Sessions :
        /\ Computed(s)
        /\ input[s].zip_code = ZipUnknown
        /\ HasColumn("proximity_multiplier")
        /\ \A i \in Rows : df[i]["base_score"] > 0
        /\ \A i \in Rows : df[i]["final_score"] = df[i]["base_score"] * Scale

\* C3: when the zip code resolves, the multiplier of every region lies in
\* (0, 1], final = base * (1 + multiplier), and base <= final <= 2 * base.
C3_ProximityAtMostDoubles ==
    \A s \in Sessions :
        (Computed(s) /\ Resolved(s)) =>
            \A i \in Rows :
                /\ df[i]["proximity_multiplier"] > 0
                /\ df[i]["proximity_multiplier"] <= Scale
                /\ df[i]["final_score"] =
                       df[i]["base_score"] * Scale
                       + df[i]["base_score"] * df[i]["proximity_multiplier"]
                /\ df[i]["base_score"] * Scale <= df[i]["final_score"]
                /\ df[i]["final_score"] <= 2 * df[i]["base_score"] * Scale

\* A resolved zip code with a weight at its maximum: some region's final
\* score lies strictly between its base score and twice its base score.
C3_Witness ==
    \E s \in Sessions :
        /\ Computed(s)
        /\ Resolved(s)
        /\ \E name \in WeightInputs : input[s][name] = SliderMax
        /\ \E i \in Rows :
              /\ df[i]["base_score"] * Scale < df[i]["final_score"]
              /\ df[i]["final_score"] < 2 * df[i]["base_score"] * Scale

\* The columns compute_scores derives.
ScoreColumns == {"base_score", "proximity_multiplier", "final_score"}

\* C4 as stated: no step changes the shared table.
C4_TableNeverChanges == [][df' = df]_vars

\* C4 as amended: a computation writes only the columns base_score,
\* proximity_multiplier and final_score; the rows and the region columns
\* (state, state_code, the five factors, lat, lon) are the same before and
\* after every step.
C4_RegionColumnsUnchanged ==
    [][/\ Len(df') = Len(df)
       /\ \A i \in Rows :
             /\ DataColumns \subseteq DOMAIN df'[i]
             /\ DOMAIN df'[i] \subseteq DataColumns \cup ScoreColumns
             /\ \A c \in DataColumns : df'[i][c] = df[i][c]]_vars

\* A computation has written its columns into the table.
C4_Witness ==
    /\ \E s \in Sessions : Computed(s) /\ input[s].weight_income # SliderDefault
    /\ HasColumn("base_score")
    /\ HasColumn("final_score")
    /\ df # DataFrame(data)

\* C5 as stated: the result of a computation whose zip code did not resolve
\* carries no proximity_multiplier.
C5_MultiplierOnlyWithLocation ==
    \A s \in Sessions :
        (Computed(s) /\ ~Resolved(s)) => ~HasColumn("proximity_multiplier")

\* C6: whatever was computed, the table has exactly the ten regions of the
\* data, each once and in place, and a drawn map has the same ten.
C6_TenRegions ==
    /\ Len(df) = 10
    /\ \A i \in Rows : df[i]["state"] = data[i].state
    /\ \A i, j \in Rows : df[i]["state"] = df[j]["state"] => i = j
    /\ \A s \in Sessions :
          out[s]["us_map"] # << >> =>
              /\ Len(out[s]["us_map"]) = 10
              /\ \A i \in 1..10 : out[s]["us_map"][i].state_code = data[i].state_code

\* Both branches have run and the map is drawn, here with every weight at zero.
C6_Witness ==
    \E s \in Sessions :
        /\ Computed(s)
        /\ branch[s] = "base"
        /\ HasColumn("proximity_multiplier")
        /\ AllWeights(s, SliderMin)
        /\ Len(out[s]["us_map"]) = 10

\* C7 as stated: with a resolved location every final score is strictly
\* greater than its base score (all distances here are finite).
C7_StrictlyGreater ==
    \A s \in Sessions :
        (Computed(s) /\ Resolved(s)) =>
            \A i \in Rows : df[i]["final_score"] > df[i]["base_score"] * Scale

\* C7 as amended: with a resolved location final >= base, and final > base
\* exactly when the base score is positive; a base score of zero (all five
\* weights zero) gives final = base = 0 at every distance.
C7_StrictUnlessZeroBase ==
    \A s \in Sessions :
        (Computed(s) /\ Resolved(s)) =>
            \A i \in Rows :
                /\ df[i]["final_score"] >= df[i]["base_score"] * Scale
                /\ (df[i]["final_score"] > df[i]["base_score"] * Scale)
                       <=> (df[i]["base_score"] > 0)
                /\ (df[i]["base_score"] = 0) <=> AllWeights(s, SliderMin)

\* A resolved location with every weight at zero, and one with a positive base.
C7_Witness ==
    \E s \in Sessions :
        /\ Computed(s)
        /\ Resolved(s)
        /\ AllWeights(s, SliderMin)
        /\ \A i \in Rows : df[i]["final_score"] = 0 /\ df[i]["proximity_multiplier"] > 0

\* The base and final scores of a table.
Scores(table) ==
    [i \in 1..Len(table) |->
        [base_score |-> table[i]["base_score"], final_score |-> table[i]["final_score"]]]

\* C8: after any sequence of input changes, the base and final scores a
\* session has computed are those of a first-ever computation, on the table
\* as constructed, from the session's current weights and zip code.
C8_ScoresDependOnCurrentInputsOnly ==
    \A s \in Sessions :
        Computed(s) => Scores(df) = Scores(ComputeScores(DataFrame(data), input[s]))

\* A computation without location on a table that still holds the multiplier
\* column of an earlier one, after a slider was moved.
C8_Witness ==
    \E s \in Sessions :
        /\ Computed(s)
        /\ ~Resolved(s)
        /\ HasColumn("proximity_multiplier")
        /\ ~AllWeights(s, SliderDefault)

\* C9: with several sessions computing on the one table, a session's drawn map
\* (once re-drawn after its last input change) shows the final scores of that
\* session's own current weights and zip code.
C9_MapShowsOwnScores ==
    \A s \in Sessions :
        ("us_map" \notin invalidated[s]) =>
            out[s]["us_map"] = Choropleth(ComputeScores(DataFrame(data), input[s]))

\* Two sessions with drawn, up-to-date maps that differ; the table holds the
\* scores of the second.
C9_Witness ==
    /\ Cardinality(Sessions) >= 2
    /\ \E s, t \in Sessions :
          /\ s # t
          /\ "us_map" \notin invalidated[s]
          /\ "us_map" \notin invalidated[t]
          /\ out[s]["us_map"] # out[t]["us_map"]
          /\ out[t]["us_map"] = Choropleth(df)
          /\ Resolved(s) # Resolved(t)

\* C10: the zip code is trimmed before lookup and the three outputs agree: once
\* all outputs of a session are up to date, chart title and info panel show the
\* trimmed zip code exactly when compute_scores took the proximity branch
\* (trimmed input is a key of zip_lookup), and "N/A" exactly when it set
\* final_score to base_score.
C10_OutputsAgreeOnZip ==
    \A s \in Sessions :
        (invalidated[s] = {}) =>
            /\ out[s]["line_chart"] = out[s]["info_box"]
            /\ (branch[s] = "proximity") <=> Resolved(s)
            /\ (branch[s] = "proximity") <=>
                   (out[s]["line_chart"] = strip(input[s].zip_code))
            /\ (branch[s] = "base") <=> (out[s]["line_chart"] = NA)
            /\ (branch[s] = "base") =>
                   \A i \in Rows : df[i]["final_score"] = df[i]["base_score"] * Scale
            /\ (branch[s] = "proximity") =>
                   \A i \in Rows :
                       /\ df[i]["proximity_multiplier"] > 0
                       /\ df[i]["final_score"] =
                              df[i]["base_score"] * Scale
                              + df[i]["base_score"] * df[i]["proximity_multiplier"]

\* A padded zip code, trimmed and found by all three outputs.
C10_Witness ==
    \E s \in Sessions :
        /\ invalidated[s] = {}
        /\ input[s].zip_code = ZipPadded
        /\ branch[s] = "proximity"
        /\ out[s]["line_chart"] = Zip90001
        /\ out[s]["info_box"] = Zip90001

=============================================================================
